---- MODULE Spec2Model ----
(***************************************************************************)
(* BrainDump: voice-driven document editor.                                *)
(*                                                                         *)
(* Document Store   src/src/stores/voice.ts (useDocumentStore, with        *)
(*                  selection) and src/src/stores/document.ts              *)
(* Session Client   src/src/lib/gemini-live.ts (GeminiLiveClient)          *)
(* Playback         src/src/lib/gemini-live.ts (useAudioPlayback)          *)
(* Capture          src/src/hooks/useAudioCapture.ts (useAudioCapture)     *)
(* Orchestrator     src/src/components/DemoVoicePanel.tsx (VoicePanel)     *)
(*                                                                         *)
(* Indices follow the source: historyIndex is 0-based, so the entry the    *)
(* source writes history[i] is history[i + 1] here.                        *)
(***************************************************************************)
EXTENDS Integers, Sequences, FiniteSets, TLC

VARIABLES
    \* ---- Document Store (useDocumentStore) ----
    content,          \* string
    history,          \* sequence of strings, oldest first
    historyIndex,     \* 0-based pointer into history
    selection,        \* <<>> for null, <<sel>> for a TextSelection
    docLog,           \* the store operations of this behaviour, in order
    \* ---- Session Client (GeminiLiveClient) ----
    ws,               \* this.ws: 0 for null, else the index of a socket in socks
    isSetupComplete,  \* this.isSetupComplete
    pendingAudio,     \* this.pendingAudio: frames not yet transmitted
    reconnectAttempts,\* this.reconnectAttempts
    socks,            \* one record per connect() call: its WebSocket, its
                      \* promise, its checkSetup interval and its timeout
    reconnectTimers,  \* pending setTimeout(() => this.connect(), 1000 * k),
                      \* each entry the multiplier k of its delay
    wire,             \* outbound messages the transports accepted, in order
    \* ---- callbacks as VoicePanel wires them (useVoiceStore) ----
    status,           \* ConnectionStatus
    error,            \* <<>> for null, <<msg>> for a message
    \* ---- environment bookkeeping ----
    framesIn,         \* number of frames passed to sendAudio so far
    calls,            \* function calls received so far: [id, name, content]
    msgsIn,           \* number of inbound messages dispatched so far, the
                      \* setup acknowledgments apart
    acksIn,           \* number of setup acknowledgments dispatched so far
    errorsIn,         \* number of transport error events so far
    connectsIn,       \* number of connect() calls by the caller so far
    budget,           \* the events this behaviour may contain (see Scenarios)
    textsIn,          \* number of texts passed to sendText so far
    voiceLog,         \* the setStatus / setError calls made from outside the
                      \* client's callbacks, in order
    \* ---- Playback Scheduler (useAudioPlayback) ----
    audioContextRef,  \* audioContextRef.current: 0 for null, else the index
                      \* of an AudioContext in contexts
    contexts,         \* the AudioContexts created so far: state, currentTime
    audioQueue,       \* audioQueueRef.current: buffers [id, duration]
    isPlaying,        \* isPlayingRef.current
    nextStartTime,    \* nextStartTimeRef.current
    sources,          \* the buffer sources started so far, in order: context,
                      \* chunk, start time, duration, whether onended has run
    chunksIn,         \* number of chunks passed to playAudio so far
    stopsAt,          \* for each stopPlayback() call so far, the number of
                      \* chunks passed to playAudio before it
    \* ---- Audio Capture (useAudioCapture) ----
    isCapturing,      \* the hook's isCapturing state
    captureError,     \* the hook's error state: <<>> for null, <<msg>>
    streamRef,        \* streamRef.current, audioContextRef.current and
    captureContextRef,\* processorRef.current of the hook: 0 for null, else
    processorRef,     \* the startCapture() call that made the object
    captures,         \* one record per startCapture() call: how far it got,
                      \* the rate of its AudioContext, its resampleBuffer (the
                      \* lengths of the buffers held), the number of input
                      \* buffers it was handed
    emitted,          \* the frames passed to onAudioData so far, in order
    captureStops,     \* number of stopCapture() calls so far
    \* ---- VoicePanel (the orchestrator) ----
    isRecording,      \* useVoiceStore's isRecording
    handles           \* one record per handleConnect() call: the connect()
                      \* call it awaits, the startCapture() call it awaits
                      \* (0 for none yet), and where it stands

docVars == <<content, history, historyIndex, selection, docLog>>

storeVars == <<content, history, historyIndex, selection>>

clientVars ==
    <<ws, isSetupComplete, pendingAudio, reconnectAttempts, socks,
      reconnectTimers, wire, status, error, framesIn, calls, msgsIn,
      errorsIn, budget, acksIn, connectsIn>>

playbackVars ==
    <<audioContextRef, contexts, audioQueue, isPlaying, nextStartTime,
      sources, chunksIn, stopsAt>>

captureVars ==
    <<isCapturing, captureError, streamRef, captureContextRef, processorRef,
      captures, emitted, captureStops>>

panelVars == <<isRecording, handles>>

outerVars == <<textsIn, voiceLog, playbackVars, captureVars, panelVars>>

vars ==
    <<content, history, historyIndex, selection, docLog,
      ws, isSetupComplete, pendingAudio, reconnectAttempts, socks,
      reconnectTimers, wire, status, error, framesIn, calls, msgsIn,
      errorsIn, budget, acksIn, connectsIn, outerVars>>

(***************************************************************************)
(* Bounds                                                                  *)
(***************************************************************************)
MaxDocOps == 4        \* store operations per behaviour
MaxVoiceOps == 3      \* setStatus / setError calls per behaviour
MaxLen == 12          \* longest content appendContent may build
MaxSockets == 4       \* transports of a behaviour in which the caller
                      \* connects once and the reconnect timers do the rest
MaxConnects == 2      \* connect() calls by the caller, and transports, of a
                      \* behaviour in which frames are passed
MaxErrors == 1        \* transport error events per behaviour
MaxFrames == 2        \* frames passed to sendAudio per behaviour
MaxTexts == 1         \* sendText calls per behaviour
MaxMsgs == 2          \* inbound messages per behaviour, the setup
                      \* acknowledgments apart
MaxChunks == 4        \* chunks passed to playAudio per behaviour
MaxStops == 1         \* stopPlayback() calls per behaviour
MaxTime == 3          \* ticks of an output clock with nothing left to play
MaxStarts == 2        \* startCapture() calls per behaviour
MaxBuffers == 3       \* input buffers processed per behaviour
MaxCaptureStops == 1  \* stopCapture() calls per behaviour

(***************************************************************************)
(* Program constants                                                       *)
(***************************************************************************)
MAX_HISTORY == 50
sampleRate == 16000   \* useAudioCapture: the target rate
bufferSize == 4096    \* useAudioCapture: the frame size
maxReconnectAttempts == 3
NORMAL_CLOSURE == 1000      \* the code disconnect() closes with
ABNORMAL_CLOSURE == 1006    \* a code other than 1000: the one a transport
                            \* that failed closes with

(***************************************************************************)
(* A behaviour is explored within one of six budgets of environment        *)
(* events:                                                                 *)
(*   chain  the caller connects once; transports fail and the reconnect    *)
(*          timers replace them; nothing is acknowledged                   *)
(*   audio  the caller connects up to MaxConnects times and passes audio   *)
(*          frames; the remote side acknowledges one setup                 *)
(*   tools  one acknowledged connection that carries inbound messages      *)
(*   crossed  two connections, the second made by the caller or by a       *)
(*          reconnect timer while the first is still there, one            *)
(*          acknowledgment, one inbound message and one text               *)
(*   crossed fault  two such connections, one acknowledgment and a          *)
(*          transport error                                                *)
(*   fault  one connection with an acknowledgment, a frame, a text, a      *)
(*          transport error and its 10 s timeout                           *)
(* timeouts tells whether the 10 s timeouts of connect() fire within the   *)
(* behaviour.                                                              *)
(***************************************************************************)
ChainScenario ==
    [sockets |-> MaxSockets, connects |-> 1, acks |-> 0, msgs |-> 0,
     frames |-> 0, texts |-> 0, errors |-> MaxErrors, timeouts |-> TRUE]

AudioScenario ==
    [sockets |-> MaxConnects, connects |-> MaxConnects, acks |-> 1,
     msgs |-> 0, frames |-> MaxFrames, texts |-> 0, errors |-> 0,
     timeouts |-> FALSE]

ToolScenario ==
    [sockets |-> 1, connects |-> 1, acks |-> 1, msgs |-> MaxMsgs,
     frames |-> 0, texts |-> 0, errors |-> 0, timeouts |-> FALSE]

CrossedScenario ==
    [sockets |-> 2, connects |-> 2, acks |-> 1, msgs |-> 1, frames |-> 0,
     texts |-> 1, errors |-> 0, timeouts |-> FALSE]

CrossedFaultScenario ==
    [sockets |-> 2, connects |-> 2, acks |-> 1, msgs |-> 0, frames |-> 0,
     texts |-> 0, errors |-> 1, timeouts |-> FALSE]

FaultScenario ==
    [sockets |-> 1, connects |-> 1, acks |-> 1, msgs |-> 0, frames |-> 1,
     texts |-> MaxTexts, errors |-> MaxErrors, timeouts |-> TRUE]

Scenarios ==
    {ChainScenario, AudioScenario, ToolScenario, CrossedScenario,
     CrossedFaultScenario, FaultScenario}

(***************************************************************************)
(* Inputs                                                                  *)
(***************************************************************************)
Contents == {"", "a", "b"}
Texts == {"Hello", "World"}
Selections ==
    { [text |-> "a", startOffset |-> 0, endOffset |-> 1],
      [text |-> "zz", startOffset |-> -1, endOffset |-> -1] }

Null == <<>>

\* ConnectionStatus
Statuses == {"disconnected", "connecting", "connected", "error"}

\* the rates an AudioContext asked for sampleRate can come up with
NativeRates == {16000, 44100, 48000}

\* the lengths of the input buffers a processor is handed
BufferLengths == {1000, 4096}

\* the messages startCapture's catch block can find: that of the Error
\* getUserMedia rejected with, or its own for a value that is no Error
DeviceErrors == {"Permission denied", "Failed to access microphone"}

\* durations of the chunks passed to playAudio, in ticks of the output clock
Durations == {1, 2}

\* arguments of setError: null, the empty string, two messages
ErrorArgs == {Null, <<"">>, <<"m1">>, <<"m2">>}

(***************************************************************************)
(* Array helpers, as Array.prototype.slice computes them                   *)
(***************************************************************************)
\* arr.slice(0, n)
SliceTo(arr, n) == SubSeq(arr, 1, IF n < Len(arr) THEN n ELSE Len(arr))

\* arr.slice(-n): the last n elements (all of them if there are fewer)
SliceLast(arr, n) ==
    IF Len(arr) <= n THEN arr ELSE SubSeq(arr, Len(arr) - n + 1, Len(arr))

(***************************************************************************)
(* Document Store                                                          *)
(***************************************************************************)
DocInit ==
    /\ content = ""
    /\ history = <<"">>
    /\ historyIndex = 0
    /\ selection = Null
    /\ docLog = <<>>

\* a history that holds MAX_HISTORY entries, as MAX_HISTORY or more
\* setContent calls with alternating contents leave it
FullHistory == [i \in 1..MAX_HISTORY |-> IF i % 2 = 1 THEN "a" ELSE "b"]

\* the store after those calls
DocFull ==
    /\ content = FullHistory[MAX_HISTORY]
    /\ history = FullHistory
    /\ historyIndex = MAX_HISTORY - 1
    /\ selection = Null
    /\ docLog = <<>>

\* (variant: the entries after the pointer are kept)
NewHistory_KeepsFuture(h, i, c) == SliceLast(Append(h, c), MAX_HISTORY)

\* (variant: the new history is not cut to MAX_HISTORY entries)
NewHistory_NoEviction(h, i, c) == Append(SliceTo(h, i + 1), c)

\* [...history.slice(0, historyIndex + 1), content].slice(-MAX_HISTORY)
NewHistory(h, i, c) == SliceLast(Append(SliceTo(h, i + 1), c), MAX_HISTORY)

\* The store as one value, so that a handler can apply several updates in turn.
Doc ==
    [content |-> content, history |-> history,
     historyIndex |-> historyIndex, selection |-> selection]

\* (variant: the selection survives an accepted setContent)
SetContentResult_KeepsSelection(d, c) ==
    IF c = d.history[d.historyIndex + 1]
    THEN d
    ELSE LET newHistory == NewHistory(d.history, d.historyIndex, c)
         IN  [content |-> c, history |-> newHistory,
              historyIndex |-> Len(newHistory) - 1, selection |-> d.selection]

\* (variant: setContent without the duplicate test)
SetContentResult_NoDuplicateTest(d, c) ==
    LET newHistory == NewHistory(d.history, d.historyIndex, c)
    IN  [content |-> c, history |-> newHistory,
         historyIndex |-> Len(newHistory) - 1, selection |-> Null]

\* setContent(c) applied to the store value d
SetContentResult(d, c) ==
    IF c = d.history[d.historyIndex + 1]
    THEN d
    ELSE LET newHistory == NewHistory(d.history, d.historyIndex, c)
         IN  [content |-> c, history |-> newHistory,
              historyIndex |-> Len(newHistory) - 1, selection |-> Null]

DocBecomes(d) ==
    /\ content' = d.content
    /\ history' = d.history
    /\ historyIndex' = d.historyIndex
    /\ selection' = d.selection

SetContentEffect(c) == DocBecomes(SetContentResult(Doc, c))

\* (variant: one line break between the paragraphs)
AppendedContent_OneLineBreak(cur, text) ==
    IF cur # "" THEN cur \o "\n" \o text ELSE text

\* content ? `${content}\n\n${text}` : text
AppendedContent(cur, text) == IF cur # "" THEN cur \o "\n\n" \o text ELSE text

Logged(op, arg) ==
    /\ docLog' = Append(docLog, [op |-> op, arg |-> arg])
    /\ UNCHANGED clientVars
    /\ UNCHANGED outerVars

setContent(c) ==
    /\ Len(docLog) < MaxDocOps
    /\ SetContentEffect(c)
    /\ Logged("setContent", <<c>>)

appendContent(text) ==
    /\ Len(docLog) < MaxDocOps
    /\ Len(AppendedContent(content, text)) <= MaxLen
    /\ SetContentEffect(AppendedContent(content, text))
    /\ Logged("appendContent", <<text>>)

\* (variant: selecting cuts the history after the pointer)
setSelection_CutsHistory(sel) ==
    /\ Len(docLog) < MaxDocOps
    /\ selection' = sel
    /\ history' = SliceTo(history, historyIndex + 1)
    /\ UNCHANGED <<content, historyIndex>>
    /\ Logged("setSelection", sel)

setSelection(sel) ==
    /\ Len(docLog) < MaxDocOps
    /\ selection' = sel
    /\ UNCHANGED <<content, history, historyIndex>>
    /\ Logged("setSelection", sel)

clearSelection ==
    /\ Len(docLog) < MaxDocOps
    /\ selection' = Null
    /\ UNCHANGED <<content, history, historyIndex>>
    /\ Logged("clearSelection", <<>>)

\* (variant: undo moves the pointer and forgets the content)
undo_StaleContent ==
    /\ Len(docLog) < MaxDocOps
    /\ IF historyIndex > 0
       THEN /\ historyIndex' = historyIndex - 1
            /\ selection' = Null
            /\ UNCHANGED <<content, history>>
       ELSE UNCHANGED <<content, history, historyIndex, selection>>
    /\ Logged("undo", <<>>)

\* (variant: a successful undo leaves the selection)
UndoResult_KeepsSelection(d) ==
    IF d.historyIndex > 0
    THEN [d EXCEPT !.content = d.history[d.historyIndex],
                   !.historyIndex = d.historyIndex - 1]
    ELSE d

\* undo() applied to the store value d
UndoResult(d) ==
    IF d.historyIndex > 0
    THEN [d EXCEPT !.content = d.history[d.historyIndex],
                   !.historyIndex = d.historyIndex - 1,
                   !.selection = Null]
    ELSE d

undo ==
    /\ Len(docLog) < MaxDocOps
    /\ DocBecomes(UndoResult(Doc))
    /\ Logged("undo", <<>>)

\* (variant: redo moves the pointer and forgets the content)
RedoResult_StaleContent(d) ==
    IF d.historyIndex < Len(d.history) - 1
    THEN [d EXCEPT !.historyIndex = d.historyIndex + 1, !.selection = Null]
    ELSE d

\* redo() applied to the store value d
RedoResult(d) ==
    IF d.historyIndex < Len(d.history) - 1
    THEN [d EXCEPT !.content = d.history[d.historyIndex + 2],
                   !.historyIndex = d.historyIndex + 1,
                   !.selection = Null]
    ELSE d

redo ==
    /\ Len(docLog) < MaxDocOps
    /\ DocBecomes(RedoResult(Doc))
    /\ Logged("redo", <<>>)

\* (variant: clear() empties the content and keeps the history)
clear_KeepsHistory ==
    /\ Len(docLog) < MaxDocOps
    /\ content' = ""
    /\ selection' = Null
    /\ UNCHANGED <<history, historyIndex>>
    /\ Logged("clear", <<>>)

clear ==
    /\ Len(docLog) < MaxDocOps
    /\ content' = ""
    /\ history' = <<"">>
    /\ historyIndex' = 0
    /\ selection' = Null
    /\ Logged("clear", <<>>)

DocNext ==
    \/ \E c \in Contents : setContent(c)
    \/ \E t \in Texts : appendContent(t)
    \/ \E s \in Selections : setSelection(<<s>>)
    \/ setSelection(Null)
    \/ clearSelection
    \/ undo
    \/ redo
    \/ clear

(***************************************************************************)
(* Voice store: the two operations the client's callbacks are wired to     *)
(***************************************************************************)
Voice == [status |-> status, error |-> error]

\* (variant: setStatus never touches the error)
SetStatusResult_KeepsError(v, st) == [status |-> st, error |-> v.error]

\* setStatus: set({ status, error: status === 'error' ? get().error : null })
SetStatusResult(v, st) ==
    [status |-> st, error |-> IF st = "error" THEN v.error ELSE Null]

\* (variant: setError leaves the status)
SetErrorResult_KeepsStatus(v, e) == [status |-> v.status, error |-> e]

\* setError: set({ error, status: error ? 'error' : get().status })
SetErrorResult(v, e) ==
    [status |-> IF e # Null /\ e # <<"">> THEN "error" ELSE v.status, error |-> e]

VoiceBecomes(v) ==
    /\ status' = v.status
    /\ error' = v.error

\* setStatus(st) called on the store
setStatus(st) ==
    /\ Len(voiceLog) < MaxVoiceOps
    /\ VoiceBecomes(SetStatusResult(Voice, st))
    /\ voiceLog' = Append(voiceLog, [op |-> "setStatus", arg |-> st])
    /\ UNCHANGED docVars
    /\ UNCHANGED <<ws, isSetupComplete, pendingAudio, reconnectAttempts,
                   socks, reconnectTimers, wire, framesIn, calls, msgsIn,
                   errorsIn, budget, acksIn, connectsIn, textsIn>>
    /\ UNCHANGED <<playbackVars, captureVars, panelVars>>

\* setError(e) called on the store
setError(e) ==
    /\ Len(voiceLog) < MaxVoiceOps
    /\ VoiceBecomes(SetErrorResult(Voice, e))
    /\ voiceLog' = Append(voiceLog, [op |-> "setError", arg |-> e])
    /\ UNCHANGED docVars
    /\ UNCHANGED <<ws, isSetupComplete, pendingAudio, reconnectAttempts,
                   socks, reconnectTimers, wire, framesIn, calls, msgsIn,
                   errorsIn, budget, acksIn, connectsIn, textsIn>>
    /\ UNCHANGED <<playbackVars, captureVars, panelVars>>

VoiceNext ==
    \/ \E st \in Statuses : setStatus(st)
    \/ \E e \in ErrorArgs : setError(e)

(***************************************************************************)
(* Session Client: the transport                                           *)
(*                                                                         *)
(* A socket is CONNECTING, OPEN, CLOSING or CLOSED.  send() on a           *)
(* CONNECTING socket throws, on an OPEN socket transmits, and on a         *)
(* CLOSING or CLOSED socket discards the data; close() on an OPEN socket   *)
(* starts the closing handshake (close event with the code given), on a    *)
(* CONNECTING socket fails the connection (close event with code 1006);    *)
(* message events are delivered on OPEN sockets only.                      *)
(***************************************************************************)
NewSocket ==
    [state |-> "CONNECTING", code |-> 0, promise |-> "pending",
     checkSetup |-> TRUE, timeout |-> TRUE, acked |-> FALSE, errored |-> FALSE]

\* resolve() / reject() of a promise: the first call settles it
Settle(p, outcome) == IF p = "pending" THEN outcome ELSE p

\* what this.ws?.send(...) does
SendOutcome(w, sk) ==
    IF w = 0 THEN "none"
    ELSE IF sk[w].state = "CONNECTING" THEN "throw"
    ELSE IF sk[w].state = "OPEN" THEN "sent"
    ELSE "dropped"

\* the wire after this.ws?.send of each of msgs, none of which throws
Transmit(w, sk, wr, msgs) ==
    IF SendOutcome(w, sk) = "sent"
    THEN wr \o [i \in 1..Len(msgs) |->
                  [sock |-> w, kind |-> msgs[i].kind, val |-> msgs[i].val]]
    ELSE wr

\* this.ws.close(1000, 'Client disconnect')
CloseSocket(sk, w) ==
    IF w = 0 THEN sk
    ELSE IF sk[w].state = "OPEN"
         THEN [sk EXCEPT ![w].state = "CLOSING", ![w].code = NORMAL_CLOSURE]
    ELSE IF sk[w].state = "CONNECTING"
         THEN [sk EXCEPT ![w].state = "CLOSING", ![w].code = ABNORMAL_CLOSURE]
    ELSE sk

\* the codes the close event of a socket can carry
CloseCodes(sock) ==
    IF sock.state = "CLOSING" THEN {sock.code}
    ELSE IF sock.state = "OPEN" THEN {NORMAL_CLOSURE, ABNORMAL_CLOSURE}
    ELSE {ABNORMAL_CLOSURE}

\* the remote side has received the setup message on socket s
SetupReceived(s) ==
    \E i \in 1..Len(wire) : wire[i].sock = s /\ wire[i].kind = "setup"

RemoveAt(seq, i) == SubSeq(seq, 1, i - 1) \o SubSeq(seq, i + 1, Len(seq))

(***************************************************************************)
(* Session Client: state and operations                                    *)
(***************************************************************************)
ClientInit ==
    /\ ws = 0
    /\ isSetupComplete = FALSE
    /\ pendingAudio = <<>>
    /\ reconnectAttempts = 0
    /\ socks = <<>>
    /\ reconnectTimers = <<>>
    /\ wire = <<>>
    /\ status = "disconnected"
    /\ error = Null
    /\ framesIn = 0
    /\ calls = <<>>
    /\ msgsIn = 0
    /\ acksIn = 0
    /\ errorsIn = 0
    /\ connectsIn = 0
    /\ budget \in Scenarios

PlaybackInit ==
    /\ audioContextRef = 0
    /\ contexts = <<>>
    /\ audioQueue = <<>>
    /\ isPlaying = FALSE
    /\ nextStartTime = 0
    /\ sources = <<>>
    /\ chunksIn = 0
    /\ stopsAt = <<>>

CaptureInit ==
    /\ isCapturing = FALSE
    /\ captureError = Null
    /\ streamRef = 0
    /\ captureContextRef = 0
    /\ processorRef = 0
    /\ captures = <<>>
    /\ emitted = <<>>
    /\ captureStops = 0

PanelInit ==
    /\ isRecording = FALSE
    /\ handles = <<>>

OuterInit ==
    /\ textsIn = 0
    /\ voiceLog = <<>>
    /\ PlaybackInit
    /\ CaptureInit
    /\ PanelInit

Init == DocInit /\ ClientInit /\ OuterInit

\* the body of connect(): a new WebSocket becomes this.ws, with its
\* handlers, its checkSetup interval and its timeout
OpenTransport ==
    /\ Len(socks) < budget.sockets
    /\ socks' = Append(socks, NewSocket)
    /\ ws' = Len(socks) + 1
    /\ UNCHANGED <<isSetupComplete, pendingAudio, reconnectAttempts, wire,
                   framesIn, calls, msgsIn, errorsIn, budget, acksIn>>
    /\ UNCHANGED docVars

\* connect() called on its own: nothing else changes
ConnectEffect ==
    /\ OpenTransport
    /\ UNCHANGED <<status, error, outerVars>>

\* connect() called by the caller
connect ==
    /\ connectsIn < budget.connects
    /\ connectsIn' = connectsIn + 1
    /\ ConnectEffect
    /\ UNCHANGED reconnectTimers

\* setTimeout(() => this.connect(), 1000 * this.reconnectAttempts) fires
reconnectTimerFires(i) ==
    /\ i \in 1..Len(reconnectTimers)
    /\ ConnectEffect
    /\ reconnectTimers' = RemoveAt(reconnectTimers, i)
    /\ UNCHANGED <<budget, outerVars, acksIn, connectsIn>>

\* ws.onopen: sendSetup(model)
onopen(s) ==
    /\ s \in 1..Len(socks)
    /\ socks[s].state = "CONNECTING"
    /\ socks' = [socks EXCEPT ![s].state = "OPEN"]
    /\ wire' = Transmit(ws, socks', wire, <<[kind |-> "setup", val |-> 0]>>)
    /\ UNCHANGED <<ws, isSetupComplete, pendingAudio, reconnectAttempts,
                   reconnectTimers, status, error, framesIn, calls, msgsIn,
                   errorsIn, budget, outerVars, acksIn, connectsIn>>
    /\ UNCHANGED docVars

\* ws.onerror
onerror(s) ==
    /\ s \in 1..Len(socks)
    /\ socks[s].state \in {"CONNECTING", "OPEN"}
    /\ ~socks[s].errored
    /\ errorsIn < budget.errors
    /\ errorsIn' = errorsIn + 1
    /\ VoiceBecomes(SetErrorResult(Voice, <<"WebSocket connection failed">>))
    /\ socks' = [socks EXCEPT ![s].errored = TRUE,
                              ![s].promise = Settle(@, "rejected")]
    /\ UNCHANGED <<ws, isSetupComplete, pendingAudio, reconnectAttempts,
                   reconnectTimers, wire, framesIn, calls, msgsIn,
                   budget, outerVars, acksIn, connectsIn>>
    /\ UNCHANGED docVars

\* (variant: the attempt test is <= instead of <)
onclose_OneAttemptMore(s, code) ==
    /\ s \in 1..Len(socks)
    /\ socks[s].state # "CLOSED"
    /\ code \in CloseCodes(socks[s])
    /\ socks' = [socks EXCEPT ![s].state = "CLOSED", ![s].code = code]
    /\ isSetupComplete' = FALSE
    /\ VoiceBecomes(SetStatusResult(Voice, "disconnected"))
    /\ IF code # NORMAL_CLOSURE /\ reconnectAttempts <= maxReconnectAttempts
       THEN /\ reconnectAttempts' = reconnectAttempts + 1
            /\ reconnectTimers' = Append(reconnectTimers, reconnectAttempts + 1)
       ELSE UNCHANGED <<reconnectAttempts, reconnectTimers>>
    /\ UNCHANGED <<ws, pendingAudio, wire, framesIn, calls, msgsIn, errorsIn,
                   budget, outerVars, acksIn, connectsIn>>
    /\ UNCHANGED docVars

\* (variant: the close code is not tested)
onclose_AnyCode(s, code) ==
    /\ s \in 1..Len(socks)
    /\ socks[s].state # "CLOSED"
    /\ code \in CloseCodes(socks[s])
    /\ socks' = [socks EXCEPT ![s].state = "CLOSED", ![s].code = code]
    /\ isSetupComplete' = FALSE
    /\ VoiceBecomes(SetStatusResult(Voice, "disconnected"))
    /\ IF reconnectAttempts < maxReconnectAttempts
       THEN /\ reconnectAttempts' = reconnectAttempts + 1
            /\ reconnectTimers' = Append(reconnectTimers, reconnectAttempts + 1)
       ELSE UNCHANGED <<reconnectAttempts, reconnectTimers>>
    /\ UNCHANGED <<ws, pendingAudio, wire, framesIn, calls, msgsIn, errorsIn,
                   budget, outerVars, acksIn, connectsIn>>
    /\ UNCHANGED docVars

\* ws.onclose with event.code = code
onclose(s, code) ==
    /\ s \in 1..Len(socks)
    /\ socks[s].state # "CLOSED"
    /\ code \in CloseCodes(socks[s])
    /\ socks' = [socks EXCEPT ![s].state = "CLOSED", ![s].code = code]
    /\ isSetupComplete' = FALSE
    /\ VoiceBecomes(SetStatusResult(Voice, "disconnected"))
    /\ IF code # NORMAL_CLOSURE /\ reconnectAttempts < maxReconnectAttempts
       THEN /\ reconnectAttempts' = reconnectAttempts + 1
            /\ reconnectTimers' = Append(reconnectTimers, reconnectAttempts + 1)
       ELSE UNCHANGED <<reconnectAttempts, reconnectTimers>>
    /\ UNCHANGED <<ws, pendingAudio, wire, framesIn, calls, msgsIn, errorsIn,
                   budget, outerVars, acksIn, connectsIn>>
    /\ UNCHANGED docVars

\* a tick of the checkSetup interval of connect() call s that finds the
\* flag set (a tick that finds it clear does nothing)
checkSetup(s) ==
    /\ s \in 1..Len(socks)
    /\ socks[s].checkSetup
    /\ isSetupComplete
    /\ socks' = [socks EXCEPT ![s].checkSetup = FALSE,
                              ![s].promise = Settle(@, "resolved")]
    /\ reconnectAttempts' = 0
    /\ UNCHANGED <<ws, isSetupComplete, pendingAudio, reconnectTimers, wire,
                   status, error, framesIn, calls, msgsIn, errorsIn,
                   budget, outerVars, acksIn, connectsIn>>
    /\ UNCHANGED docVars

\* the 10 s timeout of connect() call s fires; the timeouts all have the
\* same delay, so they fire in the order of their connect() calls
connectTimeout(s) ==
    /\ s \in 1..Len(socks)
    /\ budget.timeouts
    /\ socks[s].timeout
    /\ \A r \in 1..(s - 1) : ~socks[r].timeout
    /\ socks' = [socks EXCEPT
                    ![s].timeout = FALSE,
                    ![s].checkSetup = FALSE,
                    ![s].promise = IF ~isSetupComplete
                                   THEN Settle(@, "rejected") ELSE @]
    /\ UNCHANGED <<ws, isSetupComplete, pendingAudio, reconnectAttempts,
                   reconnectTimers, wire, status, error, framesIn, calls,
                   msgsIn, errorsIn, budget, outerVars, acksIn, connectsIn>>
    /\ UNCHANGED docVars

\* sendAudio(frame), the frame being the next one the caller produces
sendAudio ==
    /\ framesIn < budget.frames
    /\ framesIn' = framesIn + 1
    /\ IF ~isSetupComplete
       THEN /\ pendingAudio' = Append(pendingAudio, framesIn + 1)
            /\ UNCHANGED wire
       ELSE /\ wire' = Transmit(ws, socks, wire,
                                <<[kind |-> "audio", val |-> framesIn + 1]>>)
            /\ UNCHANGED pendingAudio
    /\ UNCHANGED <<ws, isSetupComplete, reconnectAttempts, socks,
                   reconnectTimers, status, error, calls, msgsIn, errorsIn,
                   budget, outerVars, acksIn, connectsIn>>
    /\ UNCHANGED docVars

\* sendText(text), the text being the next one the caller produces: nothing
\* unless the flag is set, else this.ws?.send of a clientContent message (a
\* send that throws transmits nothing)
sendText ==
    /\ textsIn < budget.texts
    /\ textsIn' = textsIn + 1
    /\ wire' = IF isSetupComplete
               THEN Transmit(ws, socks, wire,
                             <<[kind |-> "clientContent", val |-> textsIn + 1]>>)
               ELSE wire
    /\ UNCHANGED <<ws, isSetupComplete, pendingAudio, reconnectAttempts, socks,
                   reconnectTimers, status, error, framesIn, calls, msgsIn,
                   errorsIn, budget, acksIn, connectsIn, voiceLog>>
    /\ UNCHANGED <<playbackVars, captureVars, panelVars>>
    /\ UNCHANGED docVars

\* The part of the state a message handler works on.
Session ==
    [ws |-> ws, socks |-> socks, isSetupComplete |-> isSetupComplete,
     pendingAudio |-> pendingAudio, wire |-> wire, doc |-> Doc,
     voice |-> Voice, thrown |-> FALSE]

\* (variant: disconnect() closes the transport and leaves the flag)
DisconnectResult_KeepsFlag(st) ==
    [st EXCEPT !.socks = CloseSocket(st.socks, st.ws),
               !.ws = 0,
               !.voice = SetStatusResult(st.voice, "disconnected")]

\* disconnect() applied to the session value st
DisconnectResult(st) ==
    [st EXCEPT !.socks = CloseSocket(st.socks, st.ws),
               !.ws = 0,
               !.isSetupComplete = FALSE,
               !.voice = SetStatusResult(st.voice, "disconnected")]

SessionBecomes(st) ==
    /\ ws' = st.ws
    /\ isSetupComplete' = st.isSetupComplete
    /\ pendingAudio' = st.pendingAudio
    /\ wire' = st.wire
    /\ DocBecomes(st.doc)
    /\ VoiceBecomes(st.voice)

\* disconnect() called by the caller
disconnect ==
    /\ SessionBecomes(DisconnectResult(Session))
    /\ socks' = DisconnectResult(Session).socks
    /\ UNCHANGED <<reconnectAttempts, reconnectTimers, framesIn, calls,
                   msgsIn, errorsIn, budget, outerVars, acksIn, connectsIn,
                   docLog>>

\* the function calls of a message, numbered as the remote side numbers them
Numbered(fcs) ==
    [i \in 1..Len(fcs) |->
        [id |-> Len(calls) + i, name |-> fcs[i].name, content |-> fcs[i].content]]

\* message.setupComplete: set the flag, notify, then
\* this.pendingAudio.forEach(audio => this.sendAudio(audio)); this.pendingAudio = []
\* (a send that throws leaves the handler before the queue is cleared)
HandleSetupComplete(st) ==
    LET acked == [st EXCEPT !.isSetupComplete = TRUE,
                            !.voice = SetStatusResult(st.voice, "connected")]
        frames == [i \in 1..Len(st.pendingAudio) |->
                      [kind |-> "audio", val |-> st.pendingAudio[i]]]
    IN  IF st.pendingAudio # <<>> /\ SendOutcome(st.ws, st.socks) = "throw"
        THEN [acked EXCEPT !.thrown = TRUE]
        ELSE [acked EXCEPT !.wire = Transmit(st.ws, st.socks, st.wire, frames),
                           !.pendingAudio = <<>>]

IsUpdate(call) == call.name = "update_document"

\* onDocumentUpdate(content) for each of the calls us, in order
RECURSIVE ApplyUpdates(_, _)
ApplyUpdates(d, us) ==
    IF us = <<>> THEN d
    ELSE ApplyUpdates(SetContentResult(d, Head(us).content), Tail(us))

\* (variant: every call is handled as update_document, whatever its name)
HandleToolCall_AnyName(st, fcs) ==
    LET responses == [i \in 1..Len(fcs) |->
                         [kind |-> "toolResponse", val |-> fcs[i].id]]
    IN  IF fcs = <<>> THEN st
        ELSE IF SendOutcome(st.ws, st.socks) = "throw"
        THEN [st EXCEPT !.doc = SetContentResult(st.doc, fcs[1].content),
                        !.thrown = TRUE]
        ELSE [st EXCEPT !.doc = ApplyUpdates(st.doc, fcs),
                        !.wire = Transmit(st.ws, st.socks, st.wire, responses)]

\* handleToolCall: for each call named update_document, onDocumentUpdate
\* and then sendToolResponse(call.id, { success: true }); a send that
\* throws ends the loop after the first update
HandleToolCall(st, fcs) ==
    LET us == SelectSeq(fcs, IsUpdate)
        responses == [i \in 1..Len(us) |->
                         [kind |-> "toolResponse", val |-> us[i].id]]
    IN  IF us = <<>> THEN st
        ELSE IF SendOutcome(st.ws, st.socks) = "throw"
        THEN [st EXCEPT !.doc = SetContentResult(st.doc, us[1].content),
                        !.thrown = TRUE]
        ELSE [st EXCEPT !.doc = ApplyUpdates(st.doc, us),
                        !.wire = Transmit(st.ws, st.socks, st.wire, responses)]

\* (variant: a message that does not parse ends the session)
HandleMessage_ParseErrorDisconnects(st, m, fcs) ==
    IF ~m.parses THEN DisconnectResult(st)
    ELSE IF m.setupComplete THEN HandleSetupComplete(st)
    ELSE IF m.serverContent = "badAudio" THEN [st EXCEPT !.thrown = TRUE]
    ELSE LET t == HandleToolCall(st, fcs)
         IN  IF ~t.thrown /\ m.goAway THEN DisconnectResult(t) ELSE t

\* handleMessage(data); everything thrown inside, by JSON.parse too, is
\* caught and logged
HandleMessage(st, m, fcs) ==
    IF ~m.parses THEN [st EXCEPT !.thrown = TRUE]
    ELSE IF m.setupComplete THEN HandleSetupComplete(st)
    ELSE IF m.serverContent = "badAudio" THEN [st EXCEPT !.thrown = TRUE]
    ELSE LET t == HandleToolCall(st, fcs)
         IN  IF ~t.thrown /\ m.goAway THEN DisconnectResult(t) ELSE t

\* function calls a message can carry
UpdateCall(c) == [name |-> "update_document", content |-> c]
OtherCall == [name |-> "other_tool", content |-> "a"]

\* an inbound JSON message, by the fields it carries ("badAudio" is an
\* inlineData part whose data atob() rejects)
Msg(sc, sContent, fcs, ga) ==
    [parses |-> TRUE, setupComplete |-> sc, serverContent |-> sContent,
     functionCalls |-> fcs, goAway |-> ga]

\* a text JSON.parse rejects: it has no fields to read
Unparseable ==
    [parses |-> FALSE, setupComplete |-> FALSE, serverContent |-> "none",
     functionCalls |-> <<>>, goAway |-> FALSE]

Messages ==
    { Msg(TRUE, "none", <<>>, FALSE),
      Msg(TRUE, "none", <<UpdateCall("a")>>, FALSE),
      Msg(FALSE, "none", <<UpdateCall("a")>>, FALSE),
      Msg(FALSE, "none", <<OtherCall>>, FALSE),
      Msg(FALSE, "none", <<OtherCall, UpdateCall("b")>>, FALSE),
      Msg(FALSE, "none", <<UpdateCall("a"), UpdateCall("b")>>, FALSE),
      Msg(FALSE, "badAudio", <<UpdateCall("b")>>, FALSE),
      Msg(FALSE, "none", <<UpdateCall("b")>>, TRUE),
      Msg(FALSE, "none", <<>>, TRUE),
      Unparseable }

\* ws.onmessage of socket s: handleMessage(event.data), then
\* if (this.isSetupComplete && !this.ws) resolve()
\* The remote side acknowledges a setup once, after it received it.
onmessage(s, m) ==
    /\ s \in 1..Len(socks)
    /\ socks[s].state = "OPEN"
    /\ IF m.setupComplete
       THEN /\ acksIn < budget.acks
            /\ ~socks[s].acked
            /\ SetupReceived(s)
            /\ acksIn' = acksIn + 1
            /\ UNCHANGED msgsIn
       ELSE /\ msgsIn < budget.msgs
            /\ msgsIn' = msgsIn + 1
            /\ UNCHANGED acksIn
    /\ calls' = calls \o Numbered(m.functionCalls)
    /\ LET st == HandleMessage(Session, m, Numbered(m.functionCalls))
           marked == [st.socks EXCEPT ![s].acked = @ \/ m.setupComplete]
       IN  /\ SessionBecomes(st)
           /\ socks' = IF st.isSetupComplete /\ st.ws = 0
                       THEN [marked EXCEPT ![s].promise = Settle(@, "resolved")]
                       ELSE marked
    /\ UNCHANGED <<reconnectAttempts, reconnectTimers, framesIn, errorsIn,
                   budget, outerVars, connectsIn, docLog>>

ClientNext ==
    \/ connect
    \/ \E i \in 1..Len(reconnectTimers) : reconnectTimerFires(i)
    \/ \E s \in 1..Len(socks) : onopen(s)
    \/ \E s \in 1..Len(socks) : onerror(s)
    \/ \E s \in 1..Len(socks), code \in {NORMAL_CLOSURE, ABNORMAL_CLOSURE} :
           onclose(s, code)
    \/ \E s \in 1..Len(socks) : checkSetup(s)
    \/ \E s \in 1..Len(socks) : connectTimeout(s)
    \/ \E s \in 1..Len(socks), m \in Messages : onmessage(s, m)
    \/ sendAudio
    \/ sendText
    \/ disconnect

Spec == Init /\ [][ClientNext]_vars

\* the store on its own, from its initial state or with its history full;
\* the client stays as constructed
DocSpecInit ==
    /\ DocInit \/ DocFull
    /\ ClientInit
    /\ OuterInit
    /\ budget = ChainScenario

\* the initial state of a component explored on its own; the client stays
\* as constructed
AloneInit == Init /\ budget = ChainScenario

\* the voice store on its own
VoiceSpec == AloneInit /\ [][VoiceNext]_vars

DocSpec == DocSpecInit /\ [][DocNext]_vars

(***************************************************************************)
(* Playback Scheduler (useAudioPlayback)                                   *)
(*                                                                         *)
(* An AudioContext has a clock, currentTime, that starts at 0 and runs     *)
(* until the context is closed.  A buffer source started at time t plays   *)
(* from max(t, currentTime) on; its ended event is queued when the clock   *)
(* of its context reaches the end of the buffer, and the handler runs some *)
(* time after that, possibly after the context has been closed.  A source  *)
(* that a closed context cut short gets no ended event.  Nodes can be      *)
(* created and started on a closed context; they play nothing.             *)
(***************************************************************************)
Playback ==
    [audioContextRef |-> audioContextRef, contexts |-> contexts,
     audioQueue |-> audioQueue, isPlaying |-> isPlaying,
     nextStartTime |-> nextStartTime, sources |-> sources]

PlaybackBecomes(p) ==
    /\ audioContextRef' = p.audioContextRef
    /\ contexts' = p.contexts
    /\ audioQueue' = p.audioQueue
    /\ isPlaying' = p.isPlaying
    /\ nextStartTime' = p.nextStartTime
    /\ sources' = p.sources

Max(a, b) == IF a >= b THEN a ELSE b

\* getAudioContext(): a new context unless there is one that is not closed
GetAudioContext(p) ==
    IF p.audioContextRef = 0
       \/ p.contexts[p.audioContextRef].state = "closed"
    THEN [p EXCEPT !.contexts = Append(@, [state |-> "running",
                                           currentTime |-> 0]),
                   !.audioContextRef = Len(p.contexts) + 1]
    ELSE p

\* (variant: a buffer starts at the clock's time, whatever the cursor says)
PlayNextBuffer_NoCursor(p, c) ==
    IF p.audioQueue = <<>>
    THEN [p EXCEPT !.isPlaying = FALSE]
    ELSE LET buffer == Head(p.audioQueue)
             startTime == p.contexts[c].currentTime
         IN  [p EXCEPT !.audioQueue = Tail(@),
                       !.isPlaying = TRUE,
                       !.sources = Append(@, [ctx |-> c, id |-> buffer.id,
                                              start |-> startTime,
                                              duration |-> buffer.duration,
                                              ended |-> FALSE]),
                       !.nextStartTime = startTime + buffer.duration]

\* (variant: an empty queue leaves isPlayingRef as it is)
PlayNextBuffer_StaysBusy(p, c) ==
    IF p.audioQueue = <<>>
    THEN p
    ELSE LET buffer == Head(p.audioQueue)
             startTime == Max(p.contexts[c].currentTime, p.nextStartTime)
         IN  [p EXCEPT !.audioQueue = Tail(@),
                       !.isPlaying = TRUE,
                       !.sources = Append(@, [ctx |-> c, id |-> buffer.id,
                                              start |-> startTime,
                                              duration |-> buffer.duration,
                                              ended |-> FALSE]),
                       !.nextStartTime = startTime + buffer.duration]

\* (variant: the cursor is advanced by the duration from where it was)
PlayNextBuffer_AdvanceCursor(p, c) ==
    IF p.audioQueue = <<>>
    THEN [p EXCEPT !.isPlaying = FALSE]
    ELSE LET buffer == Head(p.audioQueue)
             startTime == Max(p.contexts[c].currentTime, p.nextStartTime)
         IN  [p EXCEPT !.audioQueue = Tail(@),
                       !.isPlaying = TRUE,
                       !.sources = Append(@, [ctx |-> c, id |-> buffer.id,
                                              start |-> startTime,
                                              duration |-> buffer.duration,
                                              ended |-> FALSE]),
                       !.nextStartTime = p.nextStartTime + buffer.duration]

\* playNextBuffer(audioContext), c being the context
PlayNextBuffer(p, c) ==
    IF p.audioQueue = <<>>
    THEN [p EXCEPT !.isPlaying = FALSE]
    ELSE LET buffer == Head(p.audioQueue)
             startTime == Max(p.contexts[c].currentTime, p.nextStartTime)
         IN  [p EXCEPT !.audioQueue = Tail(@),
                       !.isPlaying = TRUE,
                       !.sources = Append(@, [ctx |-> c, id |-> buffer.id,
                                              start |-> startTime,
                                              duration |-> buffer.duration,
                                              ended |-> FALSE]),
                       !.nextStartTime = startTime + buffer.duration]

\* (variant: stopPlayback leaves the queue)
StopResult_KeepsQueue(p) ==
    LET idle == [p EXCEPT !.isPlaying = FALSE,
                          !.nextStartTime = 0]
        r == p.audioContextRef
    IN  IF r # 0 /\ p.contexts[r].state # "closed"
        THEN [idle EXCEPT !.contexts[r].state = "closed",
                          !.audioContextRef = 0]
        ELSE idle

\* stopPlayback() applied to p
StopResult(p) ==
    LET idle == [p EXCEPT !.audioQueue = <<>>,
                          !.isPlaying = FALSE,
                          !.nextStartTime = 0]
        r == p.audioContextRef
    IN  IF r # 0 /\ p.contexts[r].state # "closed"
        THEN [idle EXCEPT !.contexts[r].state = "closed",
                          !.audioContextRef = 0]
        ELSE idle

\* what a playback handler leaves alone
PlaybackFrame ==
    /\ UNCHANGED docVars
    /\ UNCHANGED clientVars
    /\ UNCHANGED <<textsIn, voiceLog, captureVars, panelVars>>

\* playAudio(audioData), the data being a chunk of duration d: the buffer
\* is queued, and started at once unless a buffer is playing
playAudio(d) ==
    /\ chunksIn < MaxChunks
    /\ chunksIn' = chunksIn + 1
    /\ LET p == GetAudioContext(Playback)
           queued == [p EXCEPT !.audioQueue =
                                  Append(@, [id |-> chunksIn + 1,
                                             duration |-> d])]
       IN  PlaybackBecomes(IF ~queued.isPlaying
                           THEN PlayNextBuffer(queued, queued.audioContextRef)
                           ELSE queued)
    /\ UNCHANGED stopsAt
    /\ PlaybackFrame

\* source.onended of the i-th source: playNextBuffer(audioContext), with
\* the context the source was created on
onended(i) ==
    /\ i \in 1..Len(sources)
    /\ ~sources[i].ended
    /\ contexts[sources[i].ctx].currentTime
          >= sources[i].start + sources[i].duration
    /\ PlaybackBecomes(PlayNextBuffer([Playback EXCEPT !.sources[i].ended = TRUE],
                                      sources[i].ctx))
    /\ UNCHANGED <<chunksIn, stopsAt>>
    /\ PlaybackFrame

\* stopPlayback()
stopPlayback ==
    /\ Len(stopsAt) < MaxStops
    /\ stopsAt' = Append(stopsAt, chunksIn)
    /\ PlaybackBecomes(StopResult(Playback))
    /\ UNCHANGED chunksIn
    /\ PlaybackFrame

\* the output clock advances: up to MaxTime, and beyond it as long as a
\* buffer started on the context has not reached its end
tick ==
    /\ \E c \in 1..Len(contexts) :
          /\ contexts[c].state = "running"
          /\ \/ contexts[c].currentTime < MaxTime
             \/ \E i \in 1..Len(sources) :
                   /\ sources[i].ctx = c
                   /\ contexts[c].currentTime
                         < sources[i].start + sources[i].duration
    /\ contexts' = [c \in 1..Len(contexts) |->
                       IF contexts[c].state = "running"
                       THEN [contexts[c] EXCEPT !.currentTime = @ + 1]
                       ELSE contexts[c]]
    /\ UNCHANGED <<audioContextRef, audioQueue, isPlaying, nextStartTime,
                   sources, chunksIn, stopsAt>>
    /\ PlaybackFrame

PlaybackNext ==
    \/ \E d \in Durations : playAudio(d)
    \/ \E i \in 1..Len(sources) : onended(i)
    \/ stopPlayback
    \/ tick

\* the playback hook on its own
PlaybackSpec == AloneInit /\ [][PlaybackNext]_vars

\* playback that nobody stops
PlayingNext ==
    \/ \E d \in Durations : playAudio(d)
    \/ \E i \in 1..Len(sources) : onended(i)
    \/ tick

\* the same, with a clock that runs while it may and an event loop that
\* runs every ended handler that is due
PlayingSpec ==
    /\ AloneInit
    /\ [][PlayingNext]_vars
    /\ WF_vars(tick)
    /\ \A i \in 1..MaxChunks : WF_vars(onended(i))

(***************************************************************************)
(* Audio Capture (useAudioCapture)                                         *)
(*                                                                         *)
(* startCapture() is asynchronous: it returns at await getUserMedia and    *)
(* goes on when the device answers.  Each call has a resampleBuffer of its *)
(* own; a processor gets input buffers from the moment it is connected     *)
(* until it is disconnected or its context closed.                         *)
(***************************************************************************)
\* what a capture handler leaves alone
CaptureFrame ==
    /\ UNCHANGED docVars
    /\ UNCHANGED clientVars
    /\ UNCHANGED <<textsIn, voiceLog, playbackVars, panelVars>>

\* startCapture() up to its await: setError(null), getUserMedia(...)
StartCaptureEffect ==
    /\ Len(captures) < MaxStarts
    /\ captureError' = Null
    /\ captures' = Append(captures, [phase |-> "pending", nativeRate |-> 0,
                                      resampleBuffer |-> <<>>,
                                      buffersIn |-> 0])
    /\ UNCHANGED <<isCapturing, streamRef, captureContextRef, processorRef,
                   emitted, captureStops>>

\* startCapture() called on its own
startCapture ==
    /\ StartCaptureEffect
    /\ CaptureFrame

\* getUserMedia of call k resolves and the rest of the try block runs; the
\* AudioContext comes up with the rate given
getUserMediaResolves(k, rate) ==
    /\ k \in 1..Len(captures)
    /\ captures[k].phase = "pending"
    /\ streamRef' = k
    /\ captureContextRef' = k
    /\ processorRef' = k
    /\ captures' = [captures EXCEPT ![k].phase = "running",
                                    ![k].nativeRate = rate]
    /\ isCapturing' = TRUE
    /\ UNCHANGED <<captureError, emitted, captureStops>>
    /\ CaptureFrame

\* (variant: setIsCapturing(true) runs after the catch block too)
getUserMediaRejects_MarksCapturing(k, msg) ==
    /\ k \in 1..Len(captures)
    /\ captures[k].phase = "pending"
    /\ captureError' = <<msg>>
    /\ captures' = [captures EXCEPT ![k].phase = "failed"]
    /\ isCapturing' = TRUE
    /\ UNCHANGED <<streamRef, captureContextRef, processorRef, emitted,
                   captureStops>>
    /\ CaptureFrame

\* getUserMedia of call k rejects with an Error carrying msg: the catch
\* block runs and startCapture() resolves
getUserMediaRejects(k, msg) ==
    /\ k \in 1..Len(captures)
    /\ captures[k].phase = "pending"
    /\ captureError' = <<msg>>
    /\ captures' = [captures EXCEPT ![k].phase = "failed"]
    /\ UNCHANGED <<isCapturing, streamRef, captureContextRef, processorRef,
                   emitted, captureStops>>
    /\ CaptureFrame

RECURSIVE Sum(_)
Sum(lens) == IF lens = <<>> THEN 0 ELSE Head(lens) + Sum(Tail(lens))

\* Math.floor(totalSamples * (sampleRate / audioContext.sampleRate)); for
\* the rates and totals here the double arithmetic gives the exact floor
TargetSamples(totalSamples, nativeRate) ==
    (totalSamples * sampleRate) \div nativeRate

\* the number of input buffers processed so far
BuffersIn == Sum([k \in 1..Len(captures) |-> captures[k].buffersIn])

\* (variant: the gate tests the input samples held, not their worth at the
\* target rate)
onaudioprocess_GateOnInput(k, n) ==
    /\ k \in 1..Len(captures)
    /\ captures[k].phase = "running"
    /\ BuffersIn < MaxBuffers
    /\ LET cap == captures[k]
           got == [cap EXCEPT !.buffersIn = @ + 1]
           totalSamples == Sum(cap.resampleBuffer) + n
           targetSamples == TargetSamples(totalSamples, cap.nativeRate)
       IN  IF cap.nativeRate = sampleRate
           THEN /\ emitted' = Append(emitted, [capture |-> k, samples |-> n])
                /\ captures' = [captures EXCEPT ![k] = got]
           ELSE IF totalSamples >= bufferSize
           THEN /\ emitted' = Append(emitted, [capture |-> k,
                                               samples |-> targetSamples])
                /\ captures' = [captures EXCEPT
                                   ![k] = [got EXCEPT !.resampleBuffer = <<>>]]
           ELSE /\ emitted' = emitted
                /\ captures' = [captures EXCEPT
                                   ![k] = [got EXCEPT !.resampleBuffer =
                                              Append(@, n)]]
    /\ UNCHANGED <<isCapturing, captureError, streamRef, captureContextRef,
                   processorRef, captureStops>>
    /\ CaptureFrame

\* processor.onaudioprocess of call k with an input buffer of n samples
onaudioprocess(k, n) ==
    /\ k \in 1..Len(captures)
    /\ captures[k].phase = "running"
    /\ BuffersIn < MaxBuffers
    /\ LET cap == captures[k]
           got == [cap EXCEPT !.buffersIn = @ + 1]
           totalSamples == Sum(cap.resampleBuffer) + n
           targetSamples == TargetSamples(totalSamples, cap.nativeRate)
       IN  IF cap.nativeRate = sampleRate
           THEN /\ emitted' = Append(emitted, [capture |-> k, samples |-> n])
                /\ captures' = [captures EXCEPT ![k] = got]
           ELSE IF targetSamples >= bufferSize
           THEN /\ emitted' = Append(emitted, [capture |-> k,
                                               samples |-> targetSamples])
                /\ captures' = [captures EXCEPT
                                   ![k] = [got EXCEPT !.resampleBuffer = <<>>]]
           ELSE /\ emitted' = emitted
                /\ captures' = [captures EXCEPT
                                   ![k] = [got EXCEPT !.resampleBuffer =
                                              Append(@, n)]]
    /\ UNCHANGED <<isCapturing, captureError, streamRef, captureContextRef,
                   processorRef, captureStops>>
    /\ CaptureFrame

\* stopCapture(): the tracks of the stream stopped, the processor
\* disconnected, the context closed, each if its ref is set
StopCaptureEffect ==
    /\ captureStops < MaxCaptureStops
    /\ captureStops' = captureStops + 1
    /\ captures' = [k \in 1..Len(captures) |->
                       IF k \in {streamRef, captureContextRef, processorRef}
                       THEN [captures[k] EXCEPT !.phase = "stopped"]
                       ELSE captures[k]]
    /\ streamRef' = 0
    /\ captureContextRef' = 0
    /\ processorRef' = 0
    /\ isCapturing' = FALSE
    /\ UNCHANGED <<captureError, emitted>>

\* stopCapture() called on its own
stopCapture ==
    /\ StopCaptureEffect
    /\ CaptureFrame

CaptureNext ==
    \/ startCapture
    \/ \E k \in 1..Len(captures), rate \in NativeRates :
           getUserMediaResolves(k, rate)
    \/ \E k \in 1..Len(captures), msg \in DeviceErrors :
           getUserMediaRejects(k, msg)
    \/ \E k \in 1..Len(captures), n \in BufferLengths : onaudioprocess(k, n)
    \/ stopCapture

\* the capture hook on its own
CaptureSpec == AloneInit /\ [][CaptureNext]_vars

(***************************************************************************)
(* VoicePanel: handleConnect and handleDisconnect                          *)
(*                                                                         *)
(* handleConnect is asynchronous: it runs up to await connect(), goes on   *)
(* when that promise settles, and, if it resolved, up to await              *)
(* startCapture() and on again when that one settles.  startCapture()       *)
(* catches what getUserMedia rejects with, so its promise always resolves. *)
(***************************************************************************)
\* handleConnect() up to its first await: setStatus('connecting') and
\* clientRef.current.connect()
handleConnect ==
    /\ connectsIn < budget.connects
    /\ connectsIn' = connectsIn + 1
    /\ VoiceBecomes(SetStatusResult(Voice, "connecting"))
    /\ OpenTransport
    /\ handles' = Append(handles, [sock |-> Len(socks) + 1, capture |-> 0,
                                    at |-> "connect"])
    /\ UNCHANGED <<reconnectTimers, isRecording, textsIn, voiceLog,
                   playbackVars, captureVars>>

\* connect() of call h has resolved: handleConnect goes on to
\* await startCapture()
handleConnectConnected(h) ==
    /\ h \in 1..Len(handles)
    /\ handles[h].at = "connect"
    /\ socks[handles[h].sock].promise = "resolved"
    /\ StartCaptureEffect
    /\ handles' = [handles EXCEPT ![h].capture = Len(captures) + 1,
                                  ![h].at = "capture"]
    /\ UNCHANGED <<isRecording, textsIn, voiceLog, playbackVars>>
    /\ UNCHANGED clientVars
    /\ UNCHANGED docVars

\* what connect() can have rejected with, as the catch block reads it: the
\* timeout rejects with Error('Connection timeout'), ws.onerror with the
\* error event, which is no Error
RejectionMessages(sock) ==
    (IF ~sock.timeout THEN {"Connection timeout"} ELSE {})
    \cup (IF sock.errored THEN {"Connection failed"} ELSE {})

\* connect() of call h has rejected: the catch block of handleConnect
handleConnectFailed(h, msg) ==
    /\ h \in 1..Len(handles)
    /\ handles[h].at = "connect"
    /\ socks[handles[h].sock].promise = "rejected"
    /\ msg \in RejectionMessages(socks[handles[h].sock])
    /\ VoiceBecomes(SetErrorResult(Voice, <<msg>>))
    /\ handles' = [handles EXCEPT ![h].at = "failed"]
    /\ UNCHANGED <<ws, isSetupComplete, pendingAudio, reconnectAttempts,
                   socks, reconnectTimers, wire, framesIn, calls, msgsIn,
                   errorsIn, budget, acksIn, connectsIn>>
    /\ UNCHANGED <<isRecording, textsIn, voiceLog, playbackVars, captureVars>>
    /\ UNCHANGED docVars

\* startCapture() of call h has settled, with the device or without it:
\* setRecording(true)
handleConnectCaptured(h) ==
    /\ h \in 1..Len(handles)
    /\ handles[h].at = "capture"
    /\ captures[handles[h].capture].phase # "pending"
    /\ isRecording' = TRUE
    /\ handles' = [handles EXCEPT ![h].at = "done"]
    /\ UNCHANGED <<textsIn, voiceLog, playbackVars, captureVars>>
    /\ UNCHANGED clientVars
    /\ UNCHANGED docVars

\* handleDisconnect(): stopCapture(), stopPlayback(),
\* clientRef.current?.disconnect(), setRecording(false)
handleDisconnect ==
    /\ StopCaptureEffect
    /\ Len(stopsAt) < MaxStops
    /\ stopsAt' = Append(stopsAt, chunksIn)
    /\ PlaybackBecomes(StopResult(Playback))
    /\ SessionBecomes(DisconnectResult(Session))
    /\ socks' = DisconnectResult(Session).socks
    /\ isRecording' = FALSE
    /\ UNCHANGED <<reconnectAttempts, reconnectTimers, framesIn, calls,
                   msgsIn, errorsIn, budget, acksIn, connectsIn, docLog,
                   textsIn, voiceLog, chunksIn, handles>>

\* the panel with what its session and its capture device do
PanelNext ==
    \/ handleConnect
    \/ \E h \in 1..Len(handles) : handleConnectConnected(h)
    \/ \E h \in 1..Len(handles),
          msg \in {"Connection timeout", "Connection failed"} :
           handleConnectFailed(h, msg)
    \/ \E h \in 1..Len(handles) : handleConnectCaptured(h)
    \/ handleDisconnect
    \/ \E s \in 1..Len(socks) : onopen(s)
    \/ \E s \in 1..Len(socks) : onerror(s)
    \/ \E s \in 1..Len(socks), code \in {NORMAL_CLOSURE, ABNORMAL_CLOSURE} :
           onclose(s, code)
    \/ \E s \in 1..Len(socks) : checkSetup(s)
    \/ \E s \in 1..Len(socks) : connectTimeout(s)
    \/ \E s \in 1..Len(socks) : onmessage(s, Msg(TRUE, "none", <<>>, FALSE))
    \/ \E k \in 1..Len(captures), rate \in NativeRates :
           getUserMediaResolves(k, rate)
    \/ \E k \in 1..Len(captures), msg \in DeviceErrors :
           getUserMediaRejects(k, msg)

\* one session that is acknowledged, fails or times out
PanelSpecInit == Init /\ budget = FaultScenario

PanelSpec == PanelSpecInit /\ [][PanelNext]_vars

(***************************************************************************)
(* Properties of the Document Store (checked under DocSpec)                *)
(***************************************************************************)

\* C1: in every reachable state of the store, historyIndex is a valid index
\* of history (0 <= historyIndex <= history.length - 1) and
\* history[historyIndex] equals content.
C1_HistoryPointer ==
    /\ 0 <= historyIndex
    /\ historyIndex <= Len(history) - 1
    /\ history[historyIndex + 1] = content

\* a setContent on a full history evicted its oldest entry, and an undo
\* then moved the pointer back
C1_Witness ==
    /\ Len(docLog) = 2
    /\ docLog[1].op = "setContent"
    /\ docLog[2].op = "undo"
    /\ Len(history) = MAX_HISTORY
    /\ history[1] # FullHistory[1]
    /\ historyIndex = MAX_HISTORY - 2

\* C2 as stated: setSelection(sel) followed immediately by setContent(c),
\* for any c, leaves selection null.
C2_Original ==
    ( /\ Len(docLog) >= 2
      /\ docLog[Len(docLog)].op = "setContent"
      /\ docLog[Len(docLog) - 1].op = "setSelection" )
    => selection = Null

\* C2 as amended: setSelection(sel) followed immediately by setContent(c)
\* leaves selection null when c differs from the current content, and
\* leaves selection equal to sel when c equals the current content.
C2_SelectionAfterSetContent ==
    [][ \A c \in Contents :
          ( /\ Len(docLog) >= 1
            /\ docLog[Len(docLog)].op = "setSelection"
            /\ Len(docLog') = Len(docLog) + 1
            /\ docLog'[Len(docLog')].op = "setContent"
            /\ docLog'[Len(docLog')].arg = <<c>> )
          => selection' = (IF c = content THEN selection ELSE Null) ]_vars

\* a selection was set and the next call, an accepted setContent, cleared it
C2_Witness ==
    /\ Len(docLog) = 2
    /\ docLog[1].op = "setSelection"
    /\ docLog[1].arg # Null
    /\ docLog[2].op = "setContent"
    /\ Len(history) = 2
    /\ selection = Null

\* the step is a call of setContent(c) that the store accepts
AcceptedSetContent(c) ==
    /\ docLog' = Append(docLog, [op |-> "setContent", arg |-> <<c>>])
    /\ c # content

\* C11: history never holds more than MAX_HISTORY (50) entries; an accepted
\* setContent on a full history with the pointer at the tail drops exactly
\* the oldest entry, keeps the others in order, appends the new content
\* and leaves historyIndex at the appended entry.
C11_EvictionAtCapacity ==
    [][ /\ Len(history') <= MAX_HISTORY
        /\ \A c \in Contents :
              ( /\ AcceptedSetContent(c)
                /\ Len(history) = MAX_HISTORY
                /\ historyIndex = MAX_HISTORY - 1 )
              => /\ history' = Tail(history) \o <<c>>
                 /\ historyIndex' = MAX_HISTORY - 1
                 /\ content' = c ]_vars

\* setContent("") on the full history: the oldest entry is gone and the
\* new one is the last of MAX_HISTORY
C11_Witness ==
    /\ docLog = <<[op |-> "setContent", arg |-> <<"">>]>>
    /\ Len(history) = MAX_HISTORY
    /\ history[1] = FullHistory[2]
    /\ history[MAX_HISTORY] = ""
    /\ historyIndex = MAX_HISTORY - 1

\* C12: setContent(x) called when content = x changes neither the length
\* of history, nor its entries, nor historyIndex (nor content).
C12_SetContentSameIsNoOp ==
    [][ \A x \in Contents :
          ( /\ docLog' = Append(docLog, [op |-> "setContent", arg |-> <<x>>])
            /\ x = content )
          => /\ history' = history
             /\ historyIndex' = historyIndex
             /\ content' = content ]_vars

\* setContent("a") twice from the initial store: the second call added
\* nothing
C12_Witness ==
    /\ docLog = <<[op |-> "setContent", arg |-> <<"a">>],
                  [op |-> "setContent", arg |-> <<"a">>]>>
    /\ history = <<"", "a">>
    /\ historyIndex = 1

\* C13: from a state with historyIndex > 0, undo() followed by redo()
\* restores content, history and historyIndex to their values before the
\* undo(): redo() applied to the state an undo() step leaves gives them
\* back.
C13_UndoThenRedo ==
    [][ ( /\ docLog' = Append(docLog, [op |-> "undo", arg |-> <<>>])
          /\ historyIndex > 0 )
        => /\ RedoResult(Doc').content = content
           /\ RedoResult(Doc').history = history
           /\ RedoResult(Doc').historyIndex = historyIndex ]_vars

\* two accepted setContent calls, then undo() and redo(): the store is
\* back at the second content
C13_Witness ==
    /\ Len(docLog) = 4
    /\ docLog[1].op = "setContent"
    /\ docLog[2].op = "setContent"
    /\ docLog[3].op = "undo"
    /\ docLog[4].op = "redo"
    /\ Len(history) = 3
    /\ historyIndex = 2
    /\ content = history[3]

\* the calls of the scenario of C14, and the content after each of them
HelloWorldCalls ==
    <<[op |-> "appendContent", arg |-> <<"Hello">>],
      [op |-> "appendContent", arg |-> <<"World">>],
      [op |-> "undo", arg |-> <<>>],
      [op |-> "undo", arg |-> <<>>]>>

HelloWorldContents == <<"Hello", "Hello\n\nWorld", "Hello", "">>

\* the behaviour so far is the first calls of the scenario, made on the
\* initial store
InHelloWorld ==
    /\ docLog # <<>>
    /\ Len(docLog) <= Len(HelloWorldCalls)
    /\ docLog = SubSeq(HelloWorldCalls, 1, Len(docLog))
    /\ Len(history) < MAX_HISTORY

\* C14: appendContent(text) does what setContent does with
\* current + "\n\n" + text, or with text when the document is empty; and
\* from the empty document appendContent("Hello"), appendContent("World"),
\* undo(), undo() yield the contents "Hello", "Hello\n\nWorld", "Hello", "".
C14_AppendContent ==
    [][ /\ \A t \in Texts :
              docLog' = Append(docLog, [op |-> "appendContent", arg |-> <<t>>])
              => Doc' = SetContentResult(Doc, IF content = "" THEN t
                                              ELSE content \o "\n\n" \o t)
        /\ InHelloWorld' => content' = HelloWorldContents[Len(docLog')] ]_vars

\* the four calls of the scenario were made: the document is empty again
\* and the two paragraphs can be redone
C14_Witness ==
    /\ docLog = HelloWorldCalls
    /\ content = ""
    /\ history = <<"", "Hello", "Hello\n\nWorld">>
    /\ historyIndex = 0

(***************************************************************************)
(* Properties of the Session Client (checked under Spec)                   *)
(***************************************************************************)
AudioOf(wr) ==
    LET IsAudio(msg) == msg.kind = "audio"
        sent == SelectSeq(wr, IsAudio)
    IN  [i \in 1..Len(sent) |-> sent[i].val]

Increasing(ids) == \A i, j \in 1..Len(ids) : i < j => ids[i] < ids[j]

ResponsesTo(id) ==
    {j \in 1..Len(wire) : wire[j].kind = "toolResponse" /\ wire[j].val = id}

\* disconnect() was the last call to set this.ws: only disconnect() sets it
\* to null, and every connect() sets it to its new transport
Disconnected == ws = 0 /\ socks # <<>>

\* a step of connect() called by the caller: a transport is created and no
\* reconnect timer is consumed
CallerConnects ==
    /\ Len(socks') = Len(socks) + 1
    /\ reconnectTimers' = reconnectTimers

\* C3 as stated: after disconnect(), the client opens no new transport
\* connection until the caller calls connect() again.
C3_NoReconnectAfterDisconnect ==
    [][ (Disconnected /\ Len(socks') > Len(socks)) => CallerConnects ]_vars

\* C4 as stated: the frames buffered before the setup acknowledgment are
\* transmitted when it is dispatched, once each and in enqueue order, and
\* the frames on the wire are in the order they were passed to sendAudio.
C4_BufferedAudioFifo ==
    [][ /\ acksIn' = acksIn + 1 =>
             /\ AudioOf(wire') = AudioOf(wire) \o pendingAudio
             /\ pendingAudio' = <<>>
        /\ Increasing(AudioOf(wire')) ]_vars

\* C5 as stated: every update_document call received has exactly one
\* toolResponse with its id on the wire, and the document content is the
\* content of the last such call received.
C5_ToolCallAnswered ==
    /\ \A i \in 1..Len(calls) :
          IsUpdate(calls[i]) => Cardinality(ResponsesTo(calls[i].id)) = 1
    /\ LET us == SelectSeq(calls, IsUpdate)
       IN  us # <<>> => content = us[Len(us)].content

\* the close event of socket s, with a code other than 1000, is dispatched
AbnormalCloseOf(s) ==
    /\ socks[s].state # "CLOSED"
    /\ socks'[s].state = "CLOSED"
    /\ socks'[s].code # NORMAL_CLOSURE

\* nothing is left that could reconnect: the counter is at its cap, no
\* reconnect timer is pending and every transport is closed
Exhausted ==
    /\ reconnectAttempts = maxReconnectAttempts
    /\ reconnectTimers = <<>>
    /\ \A s \in 1..Len(socks) : socks[s].state = "CLOSED"

\* C6: an abnormal close with the counter at 0, 1 or 2 increments the
\* counter and schedules exactly one reconnect attempt; an abnormal close
\* with the counter at 3 schedules none and leaves the session
\* disconnected, and it stays so until the caller calls connect().
C6_ReconnectSchedule ==
    [][ /\ \A s \in 1..Len(socks) :
             AbnormalCloseOf(s) =>
               /\ reconnectAttempts \in 0..3
               /\ reconnectAttempts < 3 =>
                     /\ reconnectAttempts' = reconnectAttempts + 1
                     /\ Len(reconnectTimers') = Len(reconnectTimers) + 1
               /\ reconnectAttempts = 3 =>
                     /\ reconnectAttempts' = 3
                     /\ reconnectTimers' = reconnectTimers
                     /\ ~isSetupComplete'
                     /\ status' = "disconnected"
        /\ (Exhausted /\ ~CallerConnects) =>
             /\ Exhausted'
             /\ Len(socks') = Len(socks)
             /\ ~isSetupComplete' ]_vars

\* four transports closed abnormally, the three reconnect timers fired, and
\* the fourth close has scheduled nothing
C6_Witness ==
    /\ Len(socks) = 4
    /\ \A s \in 1..4 : socks[s].state = "CLOSED" /\ socks[s].code = ABNORMAL_CLOSURE
    /\ reconnectAttempts = 3
    /\ reconnectTimers = <<>>

\* C7 as stated: the dispatch of a setup acknowledgment leaves the
\* reconnect counter at zero.
C7_CounterResetOnAck ==
    [][ acksIn' = acksIn + 1 => reconnectAttempts' = 0 ]_vars

\* C8 as stated: the promise of a connect() call becomes resolved only
\* once the remote side has acknowledged the setup of that call's
\* connection; it is rejected when its timeout fires and no acknowledgment
\* of that connection has arrived, and when the transport reports an error
\* before that acknowledgment.
C8_ConnectOutcome ==
    [][ \A s \in 1..Len(socks) :
          /\ (socks[s].promise # "resolved" /\ socks'[s].promise = "resolved")
                => socks'[s].acked
          /\ (socks[s].timeout /\ ~socks'[s].timeout /\ ~socks[s].acked)
                => socks'[s].promise = "rejected"
          /\ (~socks[s].errored /\ socks'[s].errored /\ ~socks[s].acked)
                => socks'[s].promise = "rejected" ]_vars

\* C9 as stated: pendingAudio is empty after disconnect().
C9_QueueClearedOnDisconnect ==
    [][ disconnect => pendingAudio' = <<>> ]_vars

\* C10 as stated: pendingAudio is non-empty only while isSetupComplete is
\* false.
C10_QueueOnlyWhileUnacked ==
    isSetupComplete => pendingAudio = <<>>

NormalCloseOf(s) ==
    /\ socks[s].state # "CLOSED"
    /\ socks'[s].state = "CLOSED"
    /\ socks'[s].code = NORMAL_CLOSURE

NoReconnectAhead ==
    /\ reconnectTimers = <<>>
    /\ \A r \in 1..Len(socks) :
          \/ socks[r].state = "CLOSED"
          \/ socks[r].state = "CLOSING" /\ socks[r].code = NORMAL_CLOSURE

\* C17 as stated: the dispatch of a goAway message closes the transport it
\* came on with code 1000, clears the acknowledgment flag, notifies
\* onConnectionChange(false), and leaves nothing that reconnects.
C17_GoAwayDisconnects ==
    [][ \A s \in 1..Len(socks), m \in Messages :
          (m.goAway /\ ~m.setupComplete /\ onmessage(s, m))
          => /\ socks'[s].state = "CLOSING"
             /\ socks'[s].code = NORMAL_CLOSURE
             /\ ws' = 0
             /\ ~isSetupComplete'
             /\ status' = "disconnected"
             /\ NoReconnectAhead' ]_vars

\* C18: the dispatch of a message that does not parse changes nothing of
\* the session (flag, queue, this.ws, the transports, counter, timers),
\* calls no callback (status, error and document are as before), sends
\* nothing, and leaves the transport open, so that its later messages are
\* dispatched.
C18_MalformedMessageIgnored ==
    [][ \A s \in 1..Len(socks) :
          onmessage(s, Unparseable)
          => /\ UNCHANGED <<ws, isSetupComplete, pendingAudio,
                            reconnectAttempts, reconnectTimers, socks, wire>>
             /\ UNCHANGED <<status, error, calls>>
             /\ UNCHANGED docVars
             /\ socks'[s].state = "OPEN" ]_vars

\* two messages were dispatched on the acknowledged transport, one that
\* does not parse and one with an update_document call: the call was
\* applied and answered, and the transport is still open
C18_Witness ==
    /\ msgsIn = 2
    /\ Len(calls) = 1
    /\ IsUpdate(calls[1])
    /\ content = calls[1].content
    /\ ResponsesTo(calls[1].id) # {}
    /\ ws = 1
    /\ socks[1].state = "OPEN"
    /\ isSetupComplete

\* the store as the Document Store creates it
FreshDoc ==
    [content |-> "", history |-> <<"">>, historyIndex |-> 0, selection |-> Null]

\* C19 as stated: the update_document calls received so far, over all
\* messages and in the order of their functionCalls lists, have been
\* applied to the store in that order: the store is what setContent of
\* each call's content in turn makes of it, and its content is that of the
\* last call received.
C19_UpdatesInOrderReceived ==
    LET us == SelectSeq(calls, IsUpdate)
    IN  /\ Doc = ApplyUpdates(FreshDoc, us)
        /\ us # <<>> => content = us[Len(us)].content

\* C20: a function call whose name is not update_document is ignored.  No
\* toolResponse with its id is ever sent; a message whose only call has
\* another name changes nothing of the client, the stores and the
\* transports; and of a message with such a call before an update_document
\* call, only the update is applied and answered.
C20_UnknownToolsIgnored ==
    /\ [](\A i \in 1..Len(calls) :
             ~IsUpdate(calls[i]) => ResponsesTo(calls[i].id) = {})
    /\ [][ \A s \in 1..Len(socks) :
             /\ onmessage(s, Msg(FALSE, "none", <<OtherCall>>, FALSE))
                => /\ UNCHANGED <<ws, isSetupComplete, pendingAudio, socks,
                                  reconnectAttempts, reconnectTimers, wire>>
                   /\ UNCHANGED <<status, error>>
                   /\ UNCHANGED docVars
             /\ onmessage(s, Msg(FALSE, "none",
                                 <<OtherCall, UpdateCall("b")>>, FALSE))
                => /\ Doc' \in {Doc, SetContentResult(Doc, "b")}
                   /\ \A j \in Len(wire)+1..Len(wire') :
                         /\ wire'[j].kind = "toolResponse"
                         /\ wire'[j].val = Len(calls) + 2 ]_vars

\* a call with another name, then in one message such a call and an update:
\* the update alone was applied and answered
C20_Witness ==
    /\ msgsIn = 2
    /\ Len(calls) = 3
    /\ ~IsUpdate(calls[1]) /\ ~IsUpdate(calls[2]) /\ IsUpdate(calls[3])
    /\ history = <<"", calls[3].content>>
    /\ content = calls[3].content
    /\ ResponsesTo(calls[3].id) # {}
    /\ \A j \in 1..Len(wire) :
          wire[j].kind = "toolResponse" => wire[j].val = calls[3].id

\* C26: undo() at historyIndex = 0 and redo() at the last entry change
\* nothing of the store; a successful undo() or redo() moves the pointer by
\* exactly one, leaves history as it is and sets selection to null.
C26_UndoRedoFrame ==
    [][ /\ undo /\ historyIndex = 0 => UNCHANGED storeVars
        /\ redo /\ historyIndex = Len(history) - 1 => UNCHANGED storeVars
        /\ undo /\ historyIndex > 0
           => /\ historyIndex' = historyIndex - 1
              /\ history' = history
              /\ selection' = Null
        /\ redo /\ historyIndex < Len(history) - 1
           => /\ historyIndex' = historyIndex + 1
              /\ history' = history
              /\ selection' = Null ]_vars

\* a text was selected, undo() succeeded and a second undo() met the boundary
C26_Witness ==
    /\ Len(docLog) = 4
    /\ docLog[1].op = "setContent"
    /\ docLog[2].op = "setSelection" /\ docLog[2].arg # Null
    /\ docLog[3].op = "undo"
    /\ docLog[4].op = "undo"
    /\ Len(history) = 2
    /\ historyIndex = 0
    /\ selection = Null

\* the last operation called on the store was clear()
JustCleared == docLog # <<>> /\ docLog[Len(docLog)].op = "clear"

\* C27: clear() resets the store, whatever its state, to the initial state
\* (content "", history [""], historyIndex 0, selection null), and an
\* undo() or redo() that follows it changes nothing.
C27_ClearResets ==
    [][ /\ clear => Doc' = FreshDoc
        /\ JustCleared /\ (undo \/ redo) => UNCHANGED storeVars /\ Doc' = FreshDoc
      ]_vars

\* a store with two entries and a selection was cleared, then undo() called
C27_Witness ==
    /\ Len(docLog) = 4
    /\ docLog[1].op = "setContent" /\ docLog[1].arg # <<"">>
    /\ docLog[2].op = "setSelection" /\ docLog[2].arg # Null
    /\ docLog[3].op = "clear"
    /\ docLog[4].op = "undo"
    /\ Doc = FreshDoc

\* C28: setSelection(sel) and clearSelection() change only selection
\* (to sel, to null): content, history and historyIndex stay as they are.
C28_SelectionFrame ==
    [][ /\ \A sel \in {<<s>> : s \in Selections} \cup {Null} :
              setSelection(sel)
              => selection' = sel /\ UNCHANGED <<content, history, historyIndex>>
        /\ clearSelection
           => selection' = Null /\ UNCHANGED <<content, history, historyIndex>>
      ]_vars

\* after an undo() that left an entry ahead of the pointer, a text was
\* selected and the selection cleared
C28_Witness ==
    /\ Len(docLog) = 4
    /\ docLog[1].op = "setContent"
    /\ docLog[2].op = "undo"
    /\ docLog[3].op = "setSelection" /\ docLog[3].arg # Null
    /\ docLog[4].op = "clearSelection"
    /\ Len(history) = 2
    /\ historyIndex = 0
    /\ selection = Null

(***************************************************************************)
(* Properties of the voice store (checked under VoiceSpec)                 *)
(***************************************************************************)
\* the position in voiceLog of the last call of op, 0 if there is none
LastCall(op) ==
    LET is == {i \in 1..Len(voiceLog) : voiceLog[i].op = op}
    IN  IF is = {} THEN 0 ELSE CHOOSE i \in is : \A j \in is : j <= i

\* C29: status is always one of disconnected, connecting, connected, error;
\* while setStatus has not been called since the last setError(msg), error
\* is msg; setStatus to a status other than error sets error to null, and
\* setStatus('error') leaves it.
C29_StatusAndLastError ==
    /\ [](status \in Statuses)
    /\ [](LastCall("setError") > LastCall("setStatus")
            => error = voiceLog[LastCall("setError")].arg)
    /\ [][ \A st \in Statuses :
             setStatus(st)
             => error' = IF st = "error" THEN error ELSE Null ]_vars

\* a message was set, kept by setStatus('error') and cleared by the
\* setStatus that followed
C29_Witness ==
    /\ Len(voiceLog) = 3
    /\ voiceLog[1] = [op |-> "setError", arg |-> <<"m1">>]
    /\ voiceLog[2] = [op |-> "setStatus", arg |-> "error"]
    /\ voiceLog[3] = [op |-> "setStatus", arg |-> "connecting"]
    /\ status = "connecting"
    /\ error = Null

\* the text turns on the wire
TextsOf(wr) == SelectSeq(wr, LAMBDA m : m.kind = "clientContent")

\* C21 as stated: sendText(text) while setup is not acknowledged transmits
\* nothing and leaves the pending queue (and all else of the client) as it
\* is; while setup is acknowledged it transmits one clientContent message
\* with the text at once; and no text is transmitted at any other time.
C21_SendTextNotBuffered ==
    [][ /\ sendText /\ ~isSetupComplete
           => UNCHANGED <<wire, pendingAudio, ws, socks, isSetupComplete>>
        /\ sendText /\ isSetupComplete
           => /\ Len(wire') = Len(wire) + 1
              /\ wire'[Len(wire')].kind = "clientContent"
              /\ wire'[Len(wire')].val = textsIn'
              /\ UNCHANGED pendingAudio
        /\ TextsOf(wire') # TextsOf(wire) => sendText ]_vars

\* C22 as stated: a transport error event on a connection whose setup is not
\* acknowledged yet rejects that connect() and invokes the error callback;
\* on an acknowledged connection it invokes the error callback and leaves
\* the acknowledgment flag, the transport and the pending queue as they are.
C22_TransportError ==
    [][ \A s \in 1..Len(socks) :
          onerror(s)
          => /\ error' = <<"WebSocket connection failed">>
             /\ status' = "error"
             /\ ~socks[s].acked => socks'[s].promise = "rejected"
             /\ socks[s].acked
                => /\ UNCHANGED <<isSetupComplete, ws, pendingAudio>>
                   /\ socks'[s].state = socks[s].state ]_vars

(***************************************************************************)
(* Properties of the Playback Scheduler (checked under PlaybackSpec)       *)
(***************************************************************************)
\* the sources that are sounding: their context runs and its clock is
\* within their play interval [start, start + duration)
Sounding ==
    {i \in 1..Len(sources) :
        LET c == contexts[sources[i].ctx]
        IN  /\ c.state = "running"
            /\ sources[i].start <= c.currentTime
            /\ c.currentTime < sources[i].start + sources[i].duration}

\* the end of the play interval of the i-th source on the clock of its
\* context: start + duration, or the time the context was closed at if that
\* is earlier (a closed context plays nothing, so a source started on it,
\* or due after it was closed, has an empty play interval)
PlayEnd(i) ==
    LET c == contexts[sources[i].ctx]
        end == sources[i].start + sources[i].duration
    IN  IF c.state = "closed" /\ c.currentTime < end
        THEN Max(c.currentTime, sources[i].start)
        ELSE end

\* C23: whatever the arrival times of the chunks, the buffers are started
\* in the order their chunks were passed to playAudio, the play intervals
\* [start, start + duration) scheduled on one output clock never overlap
\* (a later buffer starts no earlier than the one before it ends), and at
\* most one buffer sounds at a time.
C23_OneBufferAtATimeInOrder ==
    /\ \A i, j \in 1..Len(sources) :
          i < j => /\ sources[i].id < sources[j].id
                   /\ sources[i].ctx = sources[j].ctx
                      => \/ PlayEnd(i) <= sources[j].start
                         \/ PlayEnd(j) = sources[j].start
    /\ Cardinality(Sounding) <= 1

\* three chunks started on one context: the second arrived while the first
\* played and starts where the first ends, the third arrived late and
\* starts after a gap
C23_Witness ==
    /\ stopsAt = <<>>
    /\ Len(sources) = 3
    /\ sources[2].start = sources[1].start + sources[1].duration
    /\ sources[3].start > sources[2].start + sources[2].duration
    /\ Sounding = {3}

\* the number of chunks passed to playAudio before the last stopPlayback()
BeforeLastStop(st) == IF st = <<>> THEN 0 ELSE st[Len(st)]

\* C24: stopPlayback(), with or without playback going on, leaves the queue
\* empty, the cursor at zero, the scheduler idle and no output context
\* open; and a chunk passed to playAudio before a stopPlayback() is never
\* started after it and never sounds after it.
C24_StopPlayback ==
    /\ [][ stopPlayback
           => /\ audioQueue' = <<>>
              /\ nextStartTime' = 0
              /\ ~isPlaying'
              /\ audioContextRef' = 0
              /\ \A c \in 1..Len(contexts') : contexts'[c].state = "closed"
              /\ Sounding' = {} ]_vars
    /\ [][ \A j \in (Len(sources) + 1)..Len(sources') :
             sources'[j].id > BeforeLastStop(stopsAt') ]_vars
    /\ [](\A i \in Sounding : sources[i].id > BeforeLastStop(stopsAt))

\* the first of three chunks was playing and two were queued when
\* stopPlayback() was called; a fourth chunk, passed after it, sounds
C24_Witness ==
    /\ stopsAt = <<3>>
    /\ chunksIn = 4
    /\ Len(sources) = 2
    /\ sources[1].id = 1
    /\ sources[2].id = 4
    /\ sources[2].ctx = 2
    /\ Sounding = {2}
    /\ audioQueue = <<>>

(***************************************************************************)
(* Properties of Audio Capture (checked under CaptureSpec)                 *)
(***************************************************************************)
\* C25: a capture whose native rate differs from the target rate emits no
\* frame until floor(accumulated input samples * target / native) reaches
\* the frame size; a frame it emits has that many samples and leaves the
\* accumulator empty; so two buffers of 1000 samples at 48000 emit nothing,
\* and the accumulator never holds a frame's worth.
C25_ResampleGating ==
    /\ [][ \A k \in 1..Len(captures), n \in BufferLengths :
             onaudioprocess(k, n) /\ captures[k].nativeRate # sampleRate
             => LET held == Sum(captures[k].resampleBuffer) + n
                    worth == (held * sampleRate) \div captures[k].nativeRate
                IN  IF worth < bufferSize
                    THEN /\ emitted' = emitted
                         /\ Sum(captures'[k].resampleBuffer) = held
                    ELSE /\ emitted' = Append(emitted, [capture |-> k,
                                                         samples |-> worth])
                         /\ captures'[k].resampleBuffer = <<>> ]_vars
    /\ [][ \A k \in 1..Len(captures) :
             /\ onaudioprocess(k, 1000)
             /\ captures[k].nativeRate = 48000
             /\ captures[k].resampleBuffer \in {<<>>, <<1000>>}
             => emitted' = emitted ]_vars
    /\ [](\A k \in 1..Len(captures) :
             captures[k].phase = "running" /\ captures[k].nativeRate # sampleRate
             => (Sum(captures[k].resampleBuffer) * sampleRate)
                    \div captures[k].nativeRate < bufferSize)

\* a capture at 48000 was handed three buffers of 4096 samples and emitted
\* one frame of 4096 samples at the third, which emptied its accumulator
C25_Witness ==
    /\ Len(captures) = 1
    /\ captures[1].phase = "running"
    /\ captures[1].nativeRate = 48000
    /\ captures[1].buffersIn = 3
    /\ emitted = <<[capture |-> 1, samples |-> 4096]>>
    /\ captures[1].resampleBuffer = <<>>

\* no startCapture() call has got its device so far
NeverAcquired ==
    \A k \in 1..Len(captures) : captures[k].phase \in {"pending", "failed"}

\* C30 as stated: when getUserMedia fails, startCapture() completes without
\* throwing and records the error, and capture is inactive: isCapturing is
\* false, no audio callback is installed, and no frame is emitted from then
\* on.
C30_Original ==
    /\ [][ \A k \in 1..Len(captures), msg \in DeviceErrors :
             getUserMediaRejects(k, msg)
             => /\ captures'[k].phase = "failed"
                /\ captureError' = <<msg>>
                /\ ~isCapturing'
                /\ \A j \in 1..Len(captures) : captures'[j].phase # "running"
           ]_vars
    /\ [][ (\E k \in 1..Len(captures) : captures[k].phase = "failed")
           => emitted' = emitted ]_vars

\* C30, amended: when getUserMedia fails, startCapture() completes without
\* throwing, records the error's message and leaves capture as it was
\* before the call: isCapturing, the stream, context and processor refs, the
\* other calls' captures and the frames emitted are unchanged, the failed
\* call never installs a callback or emits a frame; and as long as no call
\* has got its device capture is inactive (isCapturing false, no processor,
\* no frame).
C30_CaptureFailure ==
    /\ [][ \A k \in 1..Len(captures), msg \in DeviceErrors :
             getUserMediaRejects(k, msg)
             => /\ captures' = [captures EXCEPT ![k].phase = "failed"]
                /\ captureError' = <<msg>>
                /\ UNCHANGED <<isCapturing, streamRef, captureContextRef,
                               processorRef, emitted>> ]_vars
    /\ [](\A k \in 1..Len(captures) :
             captures[k].phase = "failed"
             => /\ captures[k].buffersIn = 0
                /\ k \notin {streamRef, captureContextRef, processorRef}
                /\ \A f \in 1..Len(emitted) : emitted[f].capture # k)
    /\ [](NeverAcquired
            => ~isCapturing /\ processorRef = 0 /\ emitted = <<>>)

\* the first startCapture() failed for want of permission: its message is
\* recorded and capture is inactive
C30_Witness ==
    /\ Len(captures) = 1
    /\ captures[1].phase = "failed"
    /\ captureError = <<"Permission denied">>
    /\ ~isCapturing
    /\ processorRef = 0
    /\ emitted = <<>>

\* C31: an accepted setContent (the new value differs from
\* history[historyIndex]) while there are redo entries, that is after one or
\* more undos, discards every redo entry: the new history is the old one up
\* to and including historyIndex followed by the new content, historyIndex
\* is the last position, and redo() is then a no-op.
C31_SetContentDropsRedo ==
    [][ \A c \in Contents :
          ( /\ docLog' = Append(docLog, [op |-> "setContent", arg |-> <<c>>])
            /\ c # history[historyIndex + 1]
            /\ historyIndex < Len(history) - 1 )
          => /\ history' = SubSeq(history, 1, historyIndex + 1) \o <<c>>
             /\ historyIndex' = Len(history') - 1
             /\ content' = c
             /\ RedoResult(Doc') = Doc' ]_vars

\* setContent("a"), setContent("b"), undo(), setContent(""): the entry "b"
\* is gone and the pointer is at the new tail
C31_Witness ==
    /\ Len(docLog) = 4
    /\ docLog[3].op = "undo"
    /\ docLog[4] = [op |-> "setContent", arg |-> <<"">>]
    /\ history = <<"", "a", "">>
    /\ historyIndex = 2
    /\ content = ""

\* C37: in every reachable state of the store no two adjacent history
\* entries are equal, truncation and eviction included.
C37_NoAdjacentDuplicates ==
    \A i \in 1..(Len(history) - 1) : history[i] # history[i + 1]

\* two accepted setContent calls on the full history: two entries were
\* evicted, and the new ones differ from their neighbours
C37_Witness ==
    /\ Len(docLog) = 2
    /\ Len(history) = MAX_HISTORY
    /\ history[1] = FullHistory[3]
    /\ history[MAX_HISTORY - 2] = "b"
    /\ history[MAX_HISTORY - 1] = ""
    /\ history[MAX_HISTORY] = "a"

\* C39: in every reachable state of the voice store a non-empty error
\* message implies status = 'error': error is null or empty whenever status
\* is disconnected, connecting or connected.
C39_ErrorImpliesErrorStatus ==
    status # "error" => error \in {Null, <<"">>}

\* setError("m1") and then setStatus("connecting"): the message is gone
C39_Witness ==
    /\ voiceLog = <<[op |-> "setError", arg |-> <<"m1">>],
                    [op |-> "setStatus", arg |-> "connecting"]>>
    /\ status = "connecting"
    /\ error = Null

\* the step pops a buffer: a source is started
Pops == Len(sources') = Len(sources) + 1

\* the source a popping step starts, and the clock of its context
Popped == sources'[Len(sources')]
ClockOfPopped == contexts'[Popped.ctx].currentTime

\* the time the source started last was scheduled to end at
PreviousEnd == sources[Len(sources)].start + sources[Len(sources)].duration

\* stopPlayback() was called after the buffer started last was popped
StoppedSincePrevious ==
    \E k \in 1..Len(stopsAt) : stopsAt[k] >= sources[Len(sources)].id

\* C32 as stated: each buffer popped is scheduled to start at max(output
\* clock now, next-start cursor) and the cursor then becomes that start plus
\* the buffer's duration; a buffer popped while the cursor is not behind the
\* clock starts exactly where the previous one ended, and a gap occurs only
\* when the clock has passed the cursor.
C32_Original ==
    [][ Pops
        => /\ Popped.start = Max(ClockOfPopped, nextStartTime)
           /\ nextStartTime' = Popped.start + Popped.duration
           /\ sources # <<>>
              => /\ nextStartTime >= ClockOfPopped
                    => Popped.start = PreviousEnd
                 /\ Popped.start > PreviousEnd
                    => ClockOfPopped > nextStartTime ]_vars

\* C32, amended: each buffer popped is scheduled to start at max(output
\* clock now, next-start cursor) and the cursor then becomes that start plus
\* the buffer's duration; unless stopPlayback() was called since the
\* previous buffer was popped, the cursor is where the previous buffer was
\* scheduled to end, so a buffer popped while the cursor is not behind the
\* clock starts exactly there, and a gap occurs only when the clock has
\* passed the cursor.  After stopPlayback() the cursor is zero, whatever
\* the previous buffer's end.
C32_StartAtMaxOfClockAndCursor ==
    [][ Pops
        => /\ Popped.start = Max(ClockOfPopped, nextStartTime)
           /\ nextStartTime' = Popped.start + Popped.duration
           /\ (sources # <<>> /\ ~StoppedSincePrevious)
              => /\ nextStartTime = PreviousEnd
                 /\ nextStartTime >= ClockOfPopped
                    => Popped.start = PreviousEnd
                 /\ Popped.start > PreviousEnd
                    => ClockOfPopped > nextStartTime
           /\ (sources # <<>> /\ StoppedSincePrevious)
              => nextStartTime = 0 ]_vars

\* two chunks of one tick each, the second queued while the first played:
\* it started where the first ended; the third came after the clock had
\* passed the cursor and started at the clock's time, after a gap
C32_Witness ==
    /\ stopsAt = <<>>
    /\ Len(contexts) = 1
    /\ Len(sources) = 3
    /\ sources[1] = [ctx |-> 1, id |-> 1, start |-> 0, duration |-> 1,
                     ended |-> TRUE]
    /\ sources[2].start = 1
    /\ sources[2].duration = 1
    /\ sources[3].start = 3
    /\ nextStartTime = 3 + sources[3].duration

\* chunk k has been scheduled: a source was started with it
Scheduled(k) == \E i \in 1..Len(sources) : sources[i].id = k

\* C38: with stopPlayback() never called and the completion callback of
\* every buffer started eventually firing (the fairness of PlayingSpec), no
\* chunk is scheduled twice, every chunk passed to playAudio is eventually
\* scheduled, and the scheduler is idle (isPlaying false) only when the
\* queue is empty.
C38_EveryChunkScheduledOnce ==
    /\ [](\A i, j \in 1..Len(sources) :
             i # j => sources[i].id # sources[j].id)
    /\ [](\A i \in 1..Len(sources) : sources[i].id \in 1..chunksIn)
    /\ [](~isPlaying => audioQueue = <<>>)
    /\ \A k \in 1..MaxChunks : (chunksIn >= k) ~> Scheduled(k)

\* three chunks of one tick each, the second and third passed while the
\* first played: each was scheduled once, back to back, every callback has
\* fired and the scheduler is idle with an empty queue
C38_Witness ==
    /\ chunksIn = 3
    /\ Len(sources) = 3
    /\ \A i \in 1..3 : /\ sources[i].id = i
                        /\ sources[i].start = i - 1
                        /\ sources[i].ended
    /\ contexts[1].currentTime = 3
    /\ audioQueue = <<>>
    /\ ~isPlaying

(***************************************************************************)
(* Properties of the Session Client's connections (checked under Spec)     *)
(***************************************************************************)
\* the transports that are open or opening
Live == {s \in 1..Len(socks) : socks[s].state \in {"CONNECTING", "OPEN"}}

\* C33 as stated: at any time at most one transport connection created by
\* the client is open or opening.
C33_OneLiveTransport == Cardinality(Live) <= 1

\* the close event of transport s is dispatched
CloseOf(s) == socks[s].state # "CLOSED" /\ socks'[s].state = "CLOSED"

\* C34 as stated: a close event of a connection that is not the client's
\* current one (replaced by a later connect(), or dropped by disconnect())
\* does not clear the acknowledgment flag, does not report the session as
\* disconnected and does not schedule a reconnect.
C34_StaleCloseIgnored ==
    [][ \A s \in 1..Len(socks) :
          (CloseOf(s) /\ s # ws)
          => /\ isSetupComplete' = isSetupComplete
             /\ status' = status
             /\ reconnectTimers' = reconnectTimers
             /\ reconnectAttempts' = reconnectAttempts ]_vars

\* C35 as stated: a connect() call is settled no later than the firing of
\* its timeout: once the timeout of a call has fired its promise is
\* resolved or rejected.
C35_ConnectSettles ==
    \A s \in 1..Len(socks) : ~socks[s].timeout => socks[s].promise # "pending"

\* the last connect() call was rejected by its timeout (no error event
\* rejected it) and connect() has not been invoked since
TimedOutLast ==
    /\ socks # <<>>
    /\ ~socks[Len(socks)].timeout
    /\ ~socks[Len(socks)].errored
    /\ socks[Len(socks)].promise = "rejected"

\* C36 as stated: once a connect() call has rejected because of the
\* timeout, the session does not become connected (isSetupComplete true,
\* onConnectionChange(true)) unless connect() is invoked again.
C36_NoConnectionAfterTimeout ==
    [][ (TimedOutLast /\ Len(socks') = Len(socks))
        => /\ isSetupComplete' => isSetupComplete
           /\ status' = "connected" => status = "connected" ]_vars

(***************************************************************************)
(* Properties of the VoicePanel (checked under PanelSpec)                  *)
(***************************************************************************)
\* a capture is active: a startCapture() call got its device and has not
\* been stopped
CaptureActive == \E k \in 1..Len(captures) : captures[k].phase = "running"

\* C40 as stated: isRecording is true only while audio capture is active
\* (the capture device was acquired), and after handleDisconnect both
\* isRecording and the capture are off.
C40_RecordingOnlyWhileCapturing ==
    /\ [](isRecording => CaptureActive /\ isCapturing)
    /\ [][ handleDisconnect
           => ~isRecording' /\ ~isCapturing' /\ ~CaptureActive' ]_vars

====
